---- MODULE Spec2Model ----
(***************************************************************************)
(* Model of src/anpr_easyocr.py: ArgentinePlateRecognizer.                 *)
(*                                                                         *)
(* A string is a sequence of characters; a character is a one-symbol       *)
(* string ("A", "7", "-") or, for a non-ASCII letter, its name             *)
(* ("e_acute").  A fragment is what the OCR reader returns without its     *)
(* bounding box: [text |-> raw string, conf |-> confidence in hundredths]. *)
(* `group' is the list handed to extract_candidate_from_group, i.e. the    *)
(* fragments already in the order recognize_plate passes them.             *)
(***************************************************************************)
EXTENDS Integers, Sequences, FiniteSets, TLC

VARIABLES group, cleaned_texts, candidate, tier, message, pc, text, valid, variants

vars == <<group, cleaned_texts, candidate, tier, message, pc, text, valid, variants>>

(* ------------------------------ bounds --------------------------------- *)
MaxFrags == 3        \* fragments in one group
MaxTextLen == 8      \* length of a string given to the validator
MaxExpandLen == 3    \* length of a string given to the expander

(* ----------------------------- characters ------------------------------ *)
UpperSeq == <<"A","B","C","D","E","F","G","H","I","J","K","L","M",
              "N","O","P","Q","R","S","T","U","V","W","X","Y","Z">>
LowerSeq == <<"a","b","c","d","e","f","g","h","i","j","k","l","m",
              "n","o","p","q","r","s","t","u","v","w","x","y","z">>
Letters == {UpperSeq[i] : i \in 1..26}
Digits == {"0","1","2","3","4","5","6","7","8","9"}

Range(s) == {s[i] : i \in 1..Len(s)}

\* the value Python's None stands for: no string of characters equals it
None == <<"<None>">>

min_confidence == 50

NotFoundMessage == <<"No se detecto patente valida.">>

ambiguous_map ==
    [c \in {"0","O","D","1","I","L","2","Z","5","S","8","B","4","A",
            "V","Y","N","M","C","G"} |->
       CASE c = "0" -> <<"0","O","D">>
         [] c = "O" -> <<"O","0","D">>
         [] c = "D" -> <<"D","O","0">>
         [] c = "1" -> <<"1","I","L">>
         [] c = "I" -> <<"I","1","L">>
         [] c = "L" -> <<"L","1","I">>
         [] c = "2" -> <<"2","Z">>
         [] c = "Z" -> <<"Z","2">>
         [] c = "5" -> <<"5","S">>
         [] c = "S" -> <<"S","5">>
         [] c = "8" -> <<"8","B">>
         [] c = "B" -> <<"B","8">>
         [] c = "4" -> <<"4","A">>
         [] c = "A" -> <<"A","4">>
         [] c = "V" -> <<"V","Y">>
         [] c = "Y" -> <<"Y","V">>
         [] c = "N" -> <<"N","M">>
         [] c = "M" -> <<"M","N">>
         [] c = "C" -> <<"C","G">>
         [] c = "G" -> <<"G","C">>]

ignore_words ==
    { <<"A","R","G","E","N","T","I","N","A">>,
      <<"R","E","P","U","B","L","I","C","A">>,
      <<"M","E","R","C","O","S","U","R">>,
      <<"A","U","T","O","M","O","T","O","R">>,
      <<"N","A","C","I","O","N","A","L">>,
      <<"B","L","O","G">>,
      <<"C","O">>,
      <<"W","W","W">>,
      <<"F","E","C","O","S","U","R">>,
      <<"F","E","C","O","S","U","R","R">>,
      <<"D","E">>,
      <<"D","E","L">>,
      <<"O","F","I","C","I","A","L">>,
      <<"V","E","H","I","C","U","L","O">>,
      <<"V","E","H","I","C","U","L","O","S">>,
      <<"G","O","B","I","E","R","N","O">>,
      <<"P","O","D","E","R">>,
      <<"E","J","E","C","U","T","I","V","O">> }

(* ------------------------------ clean_text ----------------------------- *)
\* unicodedata.normalize("NFKD", c).encode("ascii", "ignore"): an accented
\* letter decomposes into its base letter and a combining mark, which is
\* dropped; a non-ASCII character without ASCII decomposition disappears.
NFKDAscii(c) ==
    CASE c = "e_acute" -> <<"e">>
      [] c = "U_diaeresis" -> <<"U">>
      [] c = "n_tilde" -> <<"n">>
      [] c = "sharp_s" -> <<>>
      [] OTHER -> <<c>>

\* the place of a lower-case letter in the alphabet
LowerIndex == [c \in Range(LowerSeq) |-> CHOOSE i \in 1..26 : LowerSeq[i] = c]

\* str.upper() on one ASCII character
Upper(c) == IF c \in DOMAIN LowerIndex THEN UpperSeq[LowerIndex[c]] ELSE c

RECURSIVE FlatMap(_, _)
FlatMap(s, k) ==
    IF k > Len(s) THEN <<>> ELSE NFKDAscii(s[k]) \o FlatMap(s, k + 1)

clean_text(raw) ==
    LET ascii == FlatMap(raw, 1)
        upper == [i \in 1..Len(ascii) |-> Upper(ascii[i])]
    IN SelectSeq(upper, LAMBDA c : c \in Letters \cup Digits)

(* ------------------------- validate_plate_format ----------------------- *)
\* Python slice s[a:b] (0-based, end exclusive, clipped to the string)
Slice(s, a, b) == SubSeq(s, a + 1, IF b < Len(s) THEN b ELSE Len(s))

\* str.isalpha / str.isdigit on a cleaned string: false on the empty string
isalpha(s) == s # <<>> /\ \A i \in 1..Len(s) : s[i] \in Letters
isdigit(s) == s # <<>> /\ \A i \in 1..Len(s) : s[i] \in Digits

\* the validator without the motorcycle grammar
validate_plate_format_NoMoto(t) ==
    IF Len(t) = 6
    THEN isalpha(Slice(t, 0, 3)) /\ isdigit(Slice(t, 3, 6))
    ELSE IF Len(t) = 7
    THEN isalpha(Slice(t, 0, 2)) /\ isdigit(Slice(t, 2, 5)) /\ isalpha(Slice(t, 5, 7))
    ELSE IF Len(t) = 8
    THEN isalpha(Slice(t, 0, 1)) /\ isdigit(Slice(t, 1, 4)) /\ isalpha(Slice(t, 4, 8))
    ELSE FALSE

validate_plate_format(t) ==
    IF Len(t) = 6
    THEN isalpha(Slice(t, 0, 3)) /\ isdigit(Slice(t, 3, 6))
    ELSE IF Len(t) = 7
    THEN \/ isalpha(Slice(t, 0, 2)) /\ isdigit(Slice(t, 2, 5)) /\ isalpha(Slice(t, 5, 7))
         \/ isalpha(Slice(t, 0, 1)) /\ isdigit(Slice(t, 1, 4)) /\ isalpha(Slice(t, 4, 7))
    ELSE IF Len(t) = 8
    THEN isalpha(Slice(t, 0, 1)) /\ isdigit(Slice(t, 1, 4)) /\ isalpha(Slice(t, 4, 8))
    ELSE FALSE

(* ---------------------- generate_ambiguity_variants -------------------- *)
\* the option lists without the `else' branch: a character with no map
\* entry contributes nothing
options_SkipUnmapped(t) ==
    LET mapped == SelectSeq(t, LAMBDA c : c \in DOMAIN ambiguous_map)
    IN [i \in 1..Len(mapped) |-> ambiguous_map[mapped[i]]]

options(t) ==
    [i \in 1..Len(t) |->
        IF t[i] \in DOMAIN ambiguous_map THEN ambiguous_map[t[i]] ELSE <<t[i]>>]

\* itertools.product(*opts) from position k on: the last position varies
\* fastest
RECURSIVE product(_, _)
product(opts, k) ==
    IF k > Len(opts) THEN << <<>> >>
    ELSE LET rest == product(opts, k + 1)
             n == Len(rest)
         IN [m \in 1..(Len(opts[k]) * n) |->
                <<opts[k][((m - 1) \div n) + 1]>> \o rest[((m - 1) % n) + 1]]

generate_ambiguity_variants(t) == product(options(t), 1)

(* -------------------- extract_candidate_from_group -------------------- *)
\* the ignore test without the length limit
should_ignore_NoLength(txt) == txt \in ignore_words

should_ignore(txt) == txt \in ignore_words \/ Len(txt) > 8

\* the filter without the confidence test
original_texts_NoConfidence(g) ==
    SelectSeq([i \in 1..Len(g) |-> [text |-> clean_text(g[i].text), conf |-> g[i].conf]],
              LAMBDA f : ~should_ignore(f.text))

\* the (text, confidence) pairs kept for the pair and single-token rules
original_texts(g) ==
    SelectSeq([i \in 1..Len(g) |-> [text |-> clean_text(g[i].text), conf |-> g[i].conf]],
              LAMBDA f : f.conf >= min_confidence /\ ~should_ignore(f.text))

CleanedTexts(g) ==
    LET ot == original_texts(g) IN [i \in 1..Len(ot) |-> ot[i].text]

\* all <<i, j>> with i, j in 1..n, row by row
AllPairs(n) == [k \in 1..(n * n) |-> <<((k - 1) \div n) + 1, ((k - 1) % n) + 1>>]

\* for i in range(n): for j in range(i+1, n)
InputOrderPairs(n) == SelectSeq(AllPairs(n), LAMBDA p : p[1] < p[2])

\* itertools.permutations(range(n), 2)
Permutations2(n) == SelectSeq(AllPairs(n), LAMBDA p : p[1] # p[2])

\* the priority test for 3 letters + 4 digits, as its comment words it
PriorityMatch_Len7(raw) ==
    Len(raw) = 7 /\ isalpha(Slice(raw, 0, 3)) /\ isdigit(Slice(raw, 3, Len(raw)))

\* the test of the priority rule on a raw concatenation
PriorityMatch(raw) ==
    Len(raw) = 8 /\ isalpha(Slice(raw, 0, 3)) /\ isdigit(Slice(raw, 3, Len(raw)))

\* the last string of vs that the validator accepts, instead of the first
FirstValid_Last(vs) ==
    LET hits == {k \in 1..Len(vs) : validate_plate_format(vs[k])}
    IN IF hits = {} THEN None
       ELSE vs[CHOOSE k \in hits : \A m \in hits : k >= m]

\* first string of vs that the validator accepts
FirstValid(vs) ==
    LET hits == {k \in 1..Len(vs) : validate_plate_format(vs[k])}
    IN IF hits = {} THEN None
       ELSE vs[CHOOSE k \in hits : \A m \in hits : k <= m]

\* for variant in generate_ambiguity_variants(t): if valid: return variant
FirstValidVariant(t) == FirstValid(generate_ambiguity_variants(t))

RECURSIVE PriorityRuleFrom(_, _, _)
PriorityRuleFrom(c, ps, k) ==
    IF k > Len(ps) THEN None
    ELSE LET raw_combined == c[ps[k][1]] \o c[ps[k][2]]
         IN IF PriorityMatch(raw_combined) THEN raw_combined
            ELSE PriorityRuleFrom(c, ps, k + 1)

PriorityRule(c) == PriorityRuleFrom(c, InputOrderPairs(Len(c)), 1)

RECURSIVE RawFrom(_, _, _)
RawFrom(c, ps, k) ==
    IF k > Len(ps) THEN None
    ELSE LET combined == c[ps[k][1]] \o c[ps[k][2]]
         IN IF validate_plate_format(combined) THEN combined
            ELSE RawFrom(c, ps, k + 1)

RawPairs(c) == RawFrom(c, InputOrderPairs(Len(c)), 1)

PermutedPairs(c) == RawFrom(c, Permutations2(Len(c)), 1)

RECURSIVE AmbiguousFrom(_, _, _)
AmbiguousFrom(c, ps, k) ==
    IF k > Len(ps) THEN None
    ELSE LET variant == FirstValidVariant(c[ps[k][1]] \o c[ps[k][2]])
         IN IF variant # None THEN variant
            ELSE AmbiguousFrom(c, ps, k + 1)

AmbiguousPairs(c) == AmbiguousFrom(c, Permutations2(Len(c)), 1)

RECURSIVE SinglesFrom(_, _)
SinglesFrom(c, k) ==
    IF k > Len(c) THEN None
    ELSE IF validate_plate_format(c[k]) THEN c[k]
    ELSE SinglesFrom(c, k + 1)

Singles(c) == SinglesFrom(c, 1)

RECURSIVE AmbiguousSinglesFrom(_, _)
AmbiguousSinglesFrom(c, k) ==
    IF k > Len(c) THEN None
    ELSE LET variant == FirstValidVariant(c[k])
         IN IF variant # None THEN variant
            ELSE AmbiguousSinglesFrom(c, k + 1)

AmbiguousSingles(c) == AmbiguousSinglesFrom(c, 1)

RECURSIVE Join(_, _)
Join(ts, k) == IF k > Len(ts) THEN <<>> ELSE ts[k] \o Join(ts, k + 1)

\* ''.join of the cleaned text of every fragment that is not ignored
FallbackCombined(g) ==
    Join(SelectSeq([i \in 1..Len(g) |-> clean_text(g[i].text)],
                   LAMBDA t : ~should_ignore(t)), 1)

\* the window lengths tried in another order
FallbackLengths_SevenFirst == <<7, 6, 8>>

FallbackLengths == <<6, 7, 8>>

\* for length in [6, 7, 8]: for j in range(len(combined) - length + 1)
RECURSIVE FallbackFrom(_, _, _)
FallbackFrom(combined, li, j) ==
    IF li > Len(FallbackLengths) THEN None
    ELSE LET length == FallbackLengths[li]
         IN IF j >= Len(combined) - length + 1
            THEN FallbackFrom(combined, li + 1, 0)
            ELSE LET cand == Slice(combined, j, j + length)
                     variant == FirstValidVariant(cand)
                 IN IF validate_plate_format(cand) THEN cand
                    ELSE IF variant # None THEN variant
                    ELSE FallbackFrom(combined, li, j + 1)

Fallback(g) == FallbackFrom(FallbackCombined(g), 1, 0)

\* the whole function: the value returned and the rule that returned it
\* (8: the final `return None')
ExtractCandidate(g) ==
    LET c == CleanedTexts(g)
        r1 == PriorityRule(c)
        r2 == RawPairs(c)
        r3 == PermutedPairs(c)
        r4 == AmbiguousPairs(c)
        r5 == Singles(c)
        r6 == AmbiguousSingles(c)
        r7 == Fallback(g)
    IN IF r1 # None THEN [candidate |-> r1, tier |-> 1]
       ELSE IF r2 # None THEN [candidate |-> r2, tier |-> 2]
       ELSE IF r3 # None THEN [candidate |-> r3, tier |-> 3]
       ELSE IF r4 # None THEN [candidate |-> r4, tier |-> 4]
       ELSE IF r5 # None THEN [candidate |-> r5, tier |-> 5]
       ELSE IF r6 # None THEN [candidate |-> r6, tier |-> 6]
       ELSE IF r7 # None THEN [candidate |-> r7, tier |-> 7]
       ELSE [candidate |-> None, tier |-> 8]

extract_candidate_from_group(g) == ExtractCandidate(g).candidate

(* ------------------------------- inputs -------------------------------- *)
\* the fragments a group is drawn from: raw OCR text and confidence (in
\* hundredths); three of them need cleaning, two are below min_confidence,
\* one cleans to an ignored word and one to more than 8 characters
Fragments ==
    {
      [text |-> <<"A","B","C">>, conf |-> 90],
      [text |-> <<"3","6","7">>, conf |-> 90],
      [text |-> <<"1","2","3","4">>, conf |-> 90],
      [text |-> <<"3","6","7","9","9">>, conf |-> 90],
      [text |-> <<"O","8","C">>, conf |-> 90],
      [text |-> <<"4","5","Z">>, conf |-> 80],
      [text |-> <<"E","F","H"," ","3","6","7">>, conf |-> 90],
      [text |-> <<"e","f","0","3","6","7">>, conf |-> 90],
      [text |-> <<"E","F","1","3","6","S","K">>, conf |-> 30],
      [text |-> <<"K","E","F","S","3","6","7">>, conf |-> 30],
      [text |-> <<"d","e_acute","l">>, conf |-> 90],
      [text |-> <<"E","F","H","3","6","7","K","K","K">>, conf |-> 90],
      [text |-> <<"H","E","L","L","O">>, conf |-> 90] }

\* a group holds each detected fragment once
Groups ==
    UNION {{g \in [1..n -> Fragments] : \A i, j \in 1..n : g[i] = g[j] => i = j} :
              n \in 0..MaxFrags}

\* the strings given to the validator and to the expander on their own
TextAlphabet == {"O", "Z", "0", "7"}

TextExamples ==
    { <<"A","B","C","1","2","3">>, <<"A","B","1","2","3","C","D">>,
      <<"A","1","2","3","B","C","D">>, <<"A","1","2","3","B","C","D","E">>,
      <<"1","B","C","1","2","3">> }

Texts == UNION {[1..n -> TextAlphabet] : n \in 0..MaxTextLen} \cup TextExamples

(* ---------------------------- state machine ---------------------------- *)
Init ==
    /\ group \in Groups
    /\ cleaned_texts = <<>>
    /\ candidate = None
    /\ tier = 0
    /\ message = <<>>
    /\ pc = "start"
    /\ text = <<>>
    /\ valid = FALSE
    /\ variants = <<>>

TextVars == <<text, valid, variants>>

\* lines 83-87: the confidence and ignore filter
Prefilter ==
    /\ pc = "start"
    /\ cleaned_texts' = CleanedTexts(group)
    /\ pc' = "tier1"
    /\ UNCHANGED <<group, candidate, tier, message, TextVars>>

\* one rule of the search: return its match, or fall through to the next
Try(at, k, r, next) ==
    /\ pc = at
    /\ IF r # None
       THEN candidate' = r /\ tier' = k /\ pc' = "return"
       ELSE pc' = next /\ UNCHANGED <<candidate, tier>>
    /\ UNCHANGED <<group, cleaned_texts, message, TextVars>>

TryPriorityRule == Try("tier1", 1, PriorityRule(cleaned_texts), "tier2")

TryRawPairs == Try("tier2", 2, RawPairs(cleaned_texts), "tier3")

\* the permuted-pair rule falling through past the ambiguity-corrected pairs
TryPermutedPairs_SkipAmbiguous == Try("tier3", 3, PermutedPairs(cleaned_texts), "tier5")

TryPermutedPairs == Try("tier3", 3, PermutedPairs(cleaned_texts), "tier4")

TryAmbiguousPairs == Try("tier4", 4, AmbiguousPairs(cleaned_texts), "tier5")

TrySingles == Try("tier5", 5, Singles(cleaned_texts), "tier6")

TryAmbiguousSingles == Try("tier6", 6, AmbiguousSingles(cleaned_texts), "tier7")

\* the sliding window over every fragment that is not ignored, then
\* `return None'
TryFallback ==
    /\ pc = "tier7"
    /\ LET r == Fallback(group)
       IN /\ candidate' = r
          /\ tier' = IF r # None THEN 7 ELSE 8
    /\ pc' = "return"
    /\ UNCHANGED <<group, cleaned_texts, message, TextVars>>

\* the report without the `if candidate:' test
Report_NoSentinel ==
    /\ pc = "return"
    /\ message' = candidate
    /\ pc' = "done"
    /\ UNCHANGED <<group, cleaned_texts, candidate, tier, TextVars>>

\* recognize_plate, lines 186-190: `if candidate:' is false for None and
\* for the empty string
Report ==
    /\ pc = "return"
    /\ message' = IF candidate # None /\ candidate # <<>>
                  THEN candidate ELSE NotFoundMessage
    /\ pc' = "done"
    /\ UNCHANGED <<group, cleaned_texts, candidate, tier, TextVars>>

Next ==
    \/ Prefilter
    \/ TryPriorityRule
    \/ TryRawPairs
    \/ TryPermutedPairs
    \/ TryAmbiguousPairs
    \/ TrySingles
    \/ TryAmbiguousSingles
    \/ TryFallback
    \/ Report

Spec == Init /\ [][Next]_vars

(* ------------- the validator and the expander on their own ------------- *)
SearchVars == <<group, cleaned_texts, candidate, tier, message>>

InitText ==
    /\ text \in Texts
    /\ valid = FALSE
    /\ variants = <<>>
    /\ pc = "text"
    /\ group = <<>>
    /\ cleaned_texts = <<>>
    /\ candidate = None
    /\ tier = 0
    /\ message = <<>>

Validate ==
    /\ pc = "text"
    /\ valid' = validate_plate_format(text)
    /\ pc' = "validated"
    /\ UNCHANGED <<text, variants, SearchVars>>

Expand ==
    /\ pc = "text"
    /\ Len(text) <= MaxExpandLen
    /\ variants' = generate_ambiguity_variants(text)
    /\ pc' = "expanded"
    /\ UNCHANGED <<text, valid, SearchVars>>

NextText == Validate \/ Expand

SpecText == InitText /\ [][NextText]_vars

(* ------------------------------- claims -------------------------------- *)
Returned == pc \in {"return", "done"}

\* the surviving tokens whose raw concatenation a pair rule looks at
PairText(c, i, j) == c[i] \o c[j]

\* the AmbiguityMap entry of a character, or the character alone
VariantChars(c) ==
    IF c \in DOMAIN ambiguous_map THEN Range(ambiguous_map[c]) ELSE {c}

\* the plate grammars, position by position: "L" a letter, "D" a digit
GrammarShapes ==
    { <<"L","L","L","D","D","D">>,
      <<"L","L","D","D","D","L","L">>,
      <<"L","D","D","D","L","L","L">>,
      <<"L","D","D","D","L","L","L","L">> }

\* some plate grammar can be reached from t by replacing each character by
\* one of its variants
SomeVariantValid(t) ==
    \E shape \in GrammarShapes :
        /\ Len(shape) = Len(t)
        /\ \A k \in 1..Len(t) :
              \E ch \in VariantChars(t[k]) :
                  ch \in (IF shape[k] = "L" THEN Letters ELSE Digits)

\* 3 letters followed by 5 digits
ThreeLettersFiveDigits(t) ==
    /\ Len(t) = 8
    /\ \A i \in 1..3 : t[i] \in Letters
    /\ \A i \in 4..8 : t[i] \in Digits

HasMatch(k, c, g) ==
    LET n == Len(c)
        combined == FallbackCombined(g)
    IN CASE k = 1 -> \E i, j \in 1..n : i < j /\ ThreeLettersFiveDigits(PairText(c, i, j))
         [] k = 2 -> \E i, j \in 1..n : i < j /\ validate_plate_format(PairText(c, i, j))
         [] k = 3 -> \E i, j \in 1..n : i # j /\ validate_plate_format(PairText(c, i, j))
         [] k = 4 -> \E i, j \in 1..n : i # j /\ SomeVariantValid(PairText(c, i, j))
         [] k = 5 -> \E i \in 1..n : validate_plate_format(c[i])
         [] k = 6 -> \E i \in 1..n : SomeVariantValid(c[i])
         [] k = 7 -> \E length \in {6, 7, 8} : \E j \in 0..(Len(combined) - length) :
                        SomeVariantValid(Slice(combined, j, j + length))

\* C2: the rule that returns is the lowest-numbered rule with any match: a
\* match of tier k is returned only if no tier below k has a match, and
\* None only if no tier has one.  So a priority match on any pair beats an
\* earlier pair that is merely valid, and an ambiguity-corrected pair beats
\* a single token that is itself a valid plate.
C2_TierOrder ==
    Returned =>
        /\ tier \in 1..8
        /\ \A k \in 1..7 :
              /\ k < tier => ~HasMatch(k, cleaned_texts, group)
              /\ k = tier => HasMatch(k, cleaned_texts, group) /\ candidate # None
        /\ tier = 8 => candidate = None

C2_Witness ==
    /\ pc = "done"
    /\ tier = 4
    /\ HasMatch(5, cleaned_texts, group)

FragABC == [text |-> <<"A","B","C">>, conf |-> 90]
Frag1234 == [text |-> <<"1","2","3","4">>, conf |-> 90]
FragO8C == [text |-> <<"O","8","C">>, conf |-> 90]
Frag45Z == [text |-> <<"4","5","Z">>, conf |-> 80]
FragHELLO == [text |-> <<"H","E","L","L","O">>, conf |-> 90]

\* C3 as stated: for the fragments "ABC" then "1234" the priority raw rule
\* matches and the search returns "ABC1234".
C3_Original ==
    (pc = "done" /\ group = <<FragABC, Frag1234>>) =>
        tier = 1 /\ candidate = <<"A","B","C","1","2","3","4">>

\* a fragment the claims call ignored: its normalized text is an IgnoreSet
\* entry or is longer than 8 characters
IsIgnoredFragment(f) ==
    LET normalized == clean_text(f.text)
    IN normalized \in ignore_words \/ Len(normalized) >= 9

WithoutIgnored(g) == SelectSeq(g, LAMBDA f : ~IsIgnoredFragment(f))

\* C4: the result for a group equals the result for the group with every
\* ignored fragment removed, in every tier and whatever the confidence of
\* the removed fragment.
C4_IgnoredNoInfluence ==
    (pc = "done" /\ \E i \in 1..Len(group) : IsIgnoredFragment(group[i])) =>
        ExtractCandidate(WithoutIgnored(group)) = [candidate |-> candidate, tier |-> tier]

C4_Witness ==
    /\ pc = "done"
    /\ tier = 7
    /\ \E i \in 1..Len(group) : clean_text(group[i].text) \in ignore_words
    /\ \E i \in 1..Len(group) : Len(clean_text(group[i].text)) > 8

HighConfidenceOnly(g) == SelectSeq(g, LAMBDA f : f.conf >= min_confidence)

\* the normalized texts of all non-ignored fragments, joined in input order
JoinedNonIgnored(g) ==
    LET kept == WithoutIgnored(g)
    IN Join([i \in 1..Len(kept) |-> clean_text(kept[i].text)], 1)

\* C5: when tiers 1 to 6 over the fragments with confidence >= minimum have
\* a match, the result is that of the group without its below-minimum
\* fragments; otherwise the result is the sliding-window result over the
\* joined text of all non-ignored fragments, whatever their confidence.
C5_LowConfidenceOnlyInFallback ==
    (pc = "done" /\ \E i \in 1..Len(group) : group[i].conf < min_confidence) =>
        LET h == ExtractCandidate(HighConfidenceOnly(group))
        IN /\ h.tier <= 6 => candidate = h.candidate /\ tier = h.tier
           /\ h.tier >= 7 => /\ tier >= 7
                             /\ candidate = FallbackFrom(JoinedNonIgnored(group), 1, 0)

C5_Witness ==
    /\ pc = "done"
    /\ group # <<>>
    /\ \A i \in 1..Len(group) : group[i].conf < min_confidence
    /\ candidate # None
    /\ validate_plate_format(candidate)

RECURSIVE TotalLength(_, _)
TotalLength(g, k) ==
    IF k > Len(g) THEN 0
    ELSE (IF IsIgnoredFragment(g[k]) THEN 0 ELSE Len(clean_text(g[k].text)))
         + TotalLength(g, k + 1)

C6_ResultOrNotFound ==
    /\ Returned =>
          \/ candidate = None
          \/ candidate # <<>> /\ \A i \in 1..Len(candidate) : candidate[i] \in Letters \cup Digits
    /\ pc = "done" =>
          /\ candidate = None => message = NotFoundMessage
          /\ candidate # None => message = candidate
          /\ TotalLength(group, 1) < 6 => candidate = None /\ message = NotFoundMessage

\* how far the search has got
Progress(at) ==
    CASE at = "start" -> 0
      [] at = "tier1" -> 1
      [] at = "tier2" -> 2
      [] at = "tier3" -> 3
      [] at = "tier4" -> 4
      [] at = "tier5" -> 5
      [] at = "tier6" -> 6
      [] at = "tier7" -> 7
      [] at = "return" -> 8
      [] at = "done" -> 9

\* C6: every step of the search either returns or falls through to a later
\* rule, so it cannot go on forever; the result is None or a string of
\* letters and digits; recognize_plate reports None as the fixed message
\* and anything else verbatim; and when the normalized texts of the
\* non-ignored fragments total fewer than 6 characters the result is None.
C6_AlwaysAResult ==
    /\ []C6_ResultOrNotFound
    /\ [][Progress(pc') > Progress(pc)]_vars

C6_Witness ==
    /\ pc = "done"
    /\ group = <<FragHELLO>>
    /\ candidate = None
    /\ message = NotFoundMessage

\* s is made of the given runs: <<"L", 3>> is three letters, <<"D", 3>>
\* three digits
RECURSIVE MatchesRuns(_, _)
MatchesRuns(s, runs) ==
    IF runs = <<>> THEN s = <<>>
    ELSE LET class == IF runs[1][1] = "L" THEN Letters ELSE Digits
             n == runs[1][2]
         IN /\ Len(s) >= n
            /\ \A i \in 1..n : s[i] \in class
            /\ MatchesRuns(SubSeq(s, n + 1, Len(s)), Tail(runs))

PlateGrammar(s) ==
    \/ MatchesRuns(s, << <<"L", 3>>, <<"D", 3>> >>)
    \/ MatchesRuns(s, << <<"L", 2>>, <<"D", 3>>, <<"L", 2>> >>)
    \/ MatchesRuns(s, << <<"L", 1>>, <<"D", 3>>, <<"L", 3>> >>)
    \/ MatchesRuns(s, << <<"L", 1>>, <<"D", 3>>, <<"L", 4>> >>)

\* C7: the validator accepts a string of letters and digits exactly when it
\* is 3 letters + 3 digits, 2 letters + 3 digits + 2 letters, 1 letter +
\* 3 digits + 3 letters, or 1 letter + 3 digits + 4 letters; so it rejects
\* every string whose length is not 6, 7 or 8, and "1BC123".
C7_ValidatorGrammar ==
    pc = "validated" =>
        /\ valid <=> PlateGrammar(text)
        /\ Len(text) \notin {6, 7, 8} => ~valid
        /\ text = <<"1","B","C","1","2","3">> => ~valid

C7_Witness ==
    /\ pc = "validated"
    /\ valid
    /\ MatchesRuns(text, << <<"L", 1>>, <<"D", 3>>, <<"L", 3>> >>)

VariantStrings(s) ==
    {t \in [1..Len(s) -> UNION {VariantChars(s[k]) : k \in 1..Len(s)}] :
        \A k \in 1..Len(s) : t[k] \in VariantChars(s[k])}

RECURSIVE SizeProduct(_, _)
SizeProduct(s, k) ==
    IF k > Len(s) THEN 1 ELSE Cardinality(VariantChars(s[k])) * SizeProduct(s, k + 1)

\* C8: the expansion of s has no duplicates, is exactly the set of strings
\* of the length of s whose k-th character is a variant of s[k], has as many
\* elements as the product of the variant-set sizes (9 for "O0"), and
\* contains s.
C8_VariantsAreTheProduct ==
    pc = "expanded" =>
        /\ \A i, j \in 1..Len(variants) : variants[i] = variants[j] => i = j
        /\ Range(variants) = VariantStrings(text)
        /\ Len(variants) = SizeProduct(text, 1)
        /\ text \in Range(variants)
        /\ text = <<"O","0">> => Len(variants) = 9

C8_Witness ==
    /\ pc = "expanded"
    /\ text = <<"O","0">>
    /\ Len(variants) = 9
    /\ <<"D","D">> \in Range(variants)

\* the ordered permutations (i, j) of two surviving tokens whose
\* concatenation has a variant the validator accepts
CorrectablePairs(c) ==
    {p \in (1..Len(c)) \X (1..Len(c)) :
        p[1] # p[2] /\ SomeVariantValid(PairText(c, p[1], p[2]))}

\* permutations are enumerated by first position, then by second
FirstPair(ps) ==
    CHOOSE p \in ps : \A q \in ps : p[1] < q[1] \/ (p[1] = q[1] /\ p[2] <= q[2])

FirstValidIn(vs) ==
    LET hits == {k \in 1..Len(vs) : validate_plate_format(vs[k])}
    IN vs[CHOOSE k \in hits : \A m \in hits : k <= m]

\* C9: when no raw concatenation of two surviving tokens satisfies tier 1,
\* 2 or 3 and some permutation has a validating variant, the result is the
\* first validating variant, in the expander's order, of the first such
\* permutation; it differs from the raw concatenation and each character is
\* a variant of the character in its place.  For "O8C", "45Z" the raw
\* "O8C45Z" is invalid and the result is such a variant.
C9_AmbiguousPairResult ==
    (pc = "done" /\ \A k \in 1..3 : ~HasMatch(k, cleaned_texts, group)) =>
        LET pairs == CorrectablePairs(cleaned_texts)
        IN pairs # {} =>
            LET p == FirstPair(pairs)
                raw == PairText(cleaned_texts, p[1], p[2])
            IN /\ tier = 4
               /\ candidate = FirstValidIn(generate_ambiguity_variants(raw))
               /\ candidate # raw
               /\ Len(candidate) = Len(raw)
               /\ \A k \in 1..Len(raw) : candidate[k] \in VariantChars(raw[k])
               /\ validate_plate_format(candidate)
               /\ group = <<FragO8C, Frag45Z>> =>
                     /\ raw = <<"O","8","C","4","5","Z">>
                     /\ ~validate_plate_format(raw)

C9_Witness ==
    /\ pc = "done"
    /\ group = <<FragO8C, Frag45Z>>
    /\ tier = 4
    /\ candidate = <<"O","B","C","4","5","2">>

\* the windows <<length, position>> of the fallback string that have a
\* validating variant (the raw window is its own first variant)
MatchingWindows(combined) ==
    {w \in {6, 7, 8} \X (0..Len(combined)) :
        /\ w[2] <= Len(combined) - w[1]
        /\ SomeVariantValid(Slice(combined, w[2], w[2] + w[1]))}

FirstWindow(ws) ==
    CHOOSE w \in ws : \A x \in ws : w[1] < x[1] \/ (w[1] = x[1] /\ w[2] <= x[2])

RawValidWindow(combined, length, j) ==
    /\ j + length <= Len(combined)
    /\ validate_plate_format(Slice(combined, j, j + length))

\* C10: when the search reaches the sliding window, the result comes from
\* the first window, by length 6, 7, 8 and then by position, that has any
\* validating variant: the raw window if it is valid, else its first
\* validating variant.  So a corrected window of length 6 wins over a
\* raw-valid window of length 7 or 8, and a corrected window at position p
\* over a raw-valid window of the same length further right.
C10_WindowOrder ==
    (pc = "done" /\ tier >= 7) =>
        LET combined == JoinedNonIgnored(group)
            ws == MatchingWindows(combined)
        IN IF ws = {} THEN candidate = None
           ELSE LET w == FirstWindow(ws)
                    raw == Slice(combined, w[2], w[2] + w[1])
                IN /\ candidate = IF validate_plate_format(raw) THEN raw
                                  ELSE FirstValidIn(generate_ambiguity_variants(raw))
                   /\ (\E j \in 0..Len(combined) :
                          SomeVariantValid(Slice(combined, j, j + 6)) /\ j + 6 <= Len(combined))
                         => Len(candidate) = 6
                   /\ \A j \in 0..Len(combined) :
                         RawValidWindow(combined, w[1], j) => w[2] <= j

C10_Witness ==
    /\ pc = "done"
    /\ tier = 7
    /\ Len(candidate) = 6
    /\ LET combined == JoinedNonIgnored(group)
       IN /\ candidate \notin {Slice(combined, j, j + 6) : j \in 0..Len(combined)}
          /\ \E j \in 0..Len(combined) : RawValidWindow(combined, 7, j)

====
